---------------------------- MODULE Spec2Model ----------------------------
(***************************************************************************)
(* Pricing core of kalshi_btc_bot: the volatility facade (volatility.py),  *)
(* the memoised Monte-Carlo sampler and quote builder (mc_sma_pricer.py,   *)
(* garch_quote_engine.py), the batch quoting loop (quote_loop_demo.py),   *)
(* the path simulator and the analytic digital pricer (black_scholes.py).  *)
(*                                                                         *)
(* Numbers.  Volatilities are integers (units of sigma), weights are       *)
(* integers in tenths (0.8 -> 8, 0.2 -> 2), a quotient is a pair           *)
(* num/den.  A probability is a pair <<k, n>>: k of n paths hit.  A        *)
(* quoted price is an integer number of cents (0.29 -> 29).                *)
(***************************************************************************)
EXTENDS Integers, Sequences, FiniteSets, TLC

\* ------------------------------------------------------------------------
\* Bounds of the model
\* ------------------------------------------------------------------------
MaxSigma == 2
MaxBaseT == 6
MaxPaths == 2
MaxPrice == 3
MaxCalls == 3
NThreads == 2
MaxNow == 2
MaxT == 61
MaxYears == 2
MaxPolls == 2

\* ------------------------------------------------------------------------
\* Program constants
\* ------------------------------------------------------------------------
DefaultW24h == 8
DefaultW1h == 2
MAXSIZE == 16
HorizonJitter == 5
ExpiryGuard == 10
NContracts == 3
WindowBack == 59
VarFloor == 10
MAXLEN == 86400

VARIABLES
    \* ---- volatility.py
    vm,        \* the VolatilityMetrics instance: its weights, or NoInstance
    ctor,      \* the last constructor call: its arguments and its outcome
    sup,       \* what each supplier does when called now
    vpc,       \* position of the caller inside effective_sigma / error_sigma
    rd,        \* the locals sig_24h, sig_1h, val of the running evaluation
    callLog,   \* supplier calls of the running / last evaluation, in order
    volOut,    \* outcome of the last finished evaluation
    \* ---- mc_sma_pricer.py: the lru_cache around sma_sample
    cache,     \* the cache's entries [key, obj], least recently used first
    simLog,    \* every run of _simulate_sma so far: [key, data]; a sample
               \* object is named by the index of the run that made it
    reqLog,    \* every finished sma_sample call: [args, hit, obj, nsim]
    thr,       \* the threads inside sma_sample: [pc, args, obj]
    warm,      \* how many sma_sample calls the process had made at the start
    \* ---- quoting: mc_sma_pricer.py, garch_quote_engine.py
    ba,        \* the last bid_ask call: its arguments and its result
    quoteOut,  \* the last quote call: the function, its outcome, its quotes
    pr,        \* the last price_above / price_below / price_between call
    \* ---- quote_loop_demo.py: main
    bpc,       \* where main is: "fetch", "loop", "sleep" or "crashed"
    bidx,      \* the index in CONTRACT_CODES of the contract priced next
    now,       \* the wall clock, in seconds
    expiry,    \* each contract's expiry on that clock
    printed,   \* the lines main printed in the current pass
    \* ---- the simulator: _simulate_sma, _simulate_garch_avg
    sim,       \* the running / last simulation: its arguments, its loop
               \* index, its arrays, its outcome
    \* ---- black_scholes.py
    bs,        \* the last bs_digital_24h call: its arguments, its outcome
    \* ---- btc24h_cache.py
    bc,        \* the BTC24hCache: its buffer, its lock, where its _run
               \* thread and a reader are
    \* ---- btc_feed.py
    vf,        \* the BTCVolFeed: its fields, its lock, where its _run
               \* thread and a reader are
    \* ---- kalshi_contracts.py
    tk         \* the last ContractId round trip: market_code, then parse

volVars == <<vm, ctor, sup, vpc, rd, callLog, volOut>>
cacheVars == <<cache, simLog, reqLog, thr, warm>>

quoteVars == <<ba, quoteOut, pr>>
batchVars == <<bpc, bidx, now, expiry, printed>>
simVars == <<sim>>
bsVars == <<bs>>
restVars == <<bc, vf, tk>>

vars == <<vm, ctor, sup, vpc, rd, callLog, volOut,
          cache, simLog, reqLog, thr, warm,
          ba, quoteOut, pr, bpc, bidx, now, expiry, printed, sim, bs,
          bc, vf, tk>>

OtherThanVol ==
    UNCHANGED <<cacheVars, quoteVars, batchVars, simVars, bsVars, restVars>>
OtherThanCache ==
    UNCHANGED <<volVars, quoteVars, batchVars, simVars, bsVars, restVars>>

\* ========================================================================
\* volatility.py
\* ========================================================================
Labels == {"1m", "1h", "24h"}

\* What a supplier call produces: a float, None, or an exception.
Val(v) == [tag |-> "val", v |-> v]
None == [tag |-> "none", v |-> 0]
Raises == [tag |-> "raise", v |-> 0]
Unread == [tag |-> "unread", v |-> 0]

Sigmas == 0..MaxSigma
SupplierOutcomes == {Val(v) : v \in Sigmas} \cup {None, Raises}

\* Weights handed to the constructor, in tenths.
WeightChoices == {-2, 0, DefaultW1h, DefaultW24h}

NoInstance == [built |-> FALSE, w24h |-> 0, w1h |-> 0]
NoCtor == [called |-> FALSE, w24h |-> 0, w1h |-> 0, outcome |-> "none"]
NoOut == [op |-> "none", tag |-> "none", num |-> 0, den |-> 1]

\* A returned float num/den, and an exception leaving the method.
Ret(op, num, den) == [op |-> op, tag |-> "val", num |-> num, den |-> den]
Exc(op, name) == [op |-> op, tag |-> name, num |-> 0, den |-> 1]

\* VolatilitySource.get: the supplier's value, None when it raised.
get_propagating(o) == o
get(o) == IF o.tag = "raise" THEN None ELSE o

\* VolatilityMetrics.__init__: the guard on the weights.
init_rejects_lax(w24h, w1h) == w24h + w1h < 0
init_rejects(w24h, w1h) == w24h + w1h <= 0

\* VolatilityMetrics.__init__: self.weights.
StoredWeights(w24h, w1h) == [built |-> TRUE, w24h |-> w24h, w1h |-> w1h]

\* effective_sigma, from the two readings: avail, total_w and eff.
Avail(sig_24h, sig_1h) ==
    (IF sig_24h.tag = "val" THEN {"24h"} ELSE {}) \cup
    (IF sig_1h.tag = "val" THEN {"1h"} ELSE {})

TotalW(inst, avail) ==
    (IF "24h" \in avail THEN inst.w24h ELSE 0) +
    (IF "1h" \in avail THEN inst.w1h ELSE 0)

WeightedSum(inst, sig_24h, sig_1h) ==
    (IF sig_24h.tag = "val" THEN inst.w24h * sig_24h.v ELSE 0) +
    (IF sig_1h.tag = "val" THEN inst.w1h * sig_1h.v ELSE 0)

effective_sigma_unnormalised(inst, sig_24h, sig_1h) ==
    IF Avail(sig_24h, sig_1h) = {}
    THEN Ret("effective_sigma", 0, 1)
    ELSE Ret("effective_sigma", WeightedSum(inst, sig_24h, sig_1h),
             inst.w24h + inst.w1h)
effective_sigma(inst, sig_24h, sig_1h) ==
    LET avail == Avail(sig_24h, sig_1h)
        total_w == TotalW(inst, avail)
    IN  IF avail = {}
        THEN Ret("effective_sigma", 0, 1)
        ELSE IF total_w = 0
             THEN Exc("effective_sigma", "ZeroDivisionError")
             ELSE Ret("effective_sigma",
                      WeightedSum(inst, sig_24h, sig_1h), total_w)

\* error_sigma: the test that ends the loop over the getters.
IsPresentTruthy(val) == val.tag = "val" /\ val.v # 0
IsPresent(val) == val.tag = "val"

\* ---- actions -----------------------------------------------------------

\* VolatilityMetrics(sigma_1m, sigma_1h, sigma_24h, w24h=..., w1h=...)
Construct(w24h, w1h) ==
    /\ ~ctor.called
    /\ IF init_rejects(w24h, w1h)
       THEN /\ ctor' = [called |-> TRUE, w24h |-> w24h, w1h |-> w1h,
                        outcome |-> "ValueError"]
            /\ vm' = vm
       ELSE /\ ctor' = [called |-> TRUE, w24h |-> w24h, w1h |-> w1h,
                        outcome |-> "ok"]
            /\ vm' = StoredWeights(w24h, w1h)
    /\ OtherThanVol
    /\ UNCHANGED <<sup, vpc, rd, callLog, volOut>>

\* A background feed changes what a supplier will answer.
FeedUpdate(k, o) ==
    /\ sup[k] # o
    /\ sup' = [sup EXCEPT ![k] = o]
    /\ OtherThanVol
    /\ UNCHANGED <<vm, ctor, vpc, rd, callLog, volOut>>

FreshLocals == [k \in Labels |-> Unread]

\* One supplier call through VolatilitySource.get, inside an evaluation.
\* An exception that get lets through leaves the method.
Read(op, k, next) ==
    LET got == get(sup[k])
    IN  /\ callLog' = Append(callLog, <<k, sup[k]>>)
        /\ IF got.tag = "raise"
           THEN /\ volOut' = Exc(op, "SupplierError")
                /\ vpc' = "idle"
                /\ rd' = rd
           ELSE /\ rd' = [rd EXCEPT ![k] = got]
                /\ vpc' = next
                /\ volOut' = volOut

\* effective_sigma(): entry
EffEnter ==
    /\ vm.built /\ vpc = "idle"
    /\ vpc' = "eff_24h"
    /\ rd' = FreshLocals
    /\ callLog' = <<>>
    /\ volOut' = NoOut
    /\ OtherThanVol
    /\ UNCHANGED <<vm, ctor, sup>>

\* sig_24h = self.get_24h()
EffRead24h ==
    /\ vpc = "eff_24h"
    /\ Read("effective_sigma", "24h", "eff_1h")
    /\ OtherThanVol
    /\ UNCHANGED <<vm, ctor, sup>>

\* sig_1h = self.get_1h()
EffRead1h ==
    /\ vpc = "eff_1h"
    /\ Read("effective_sigma", "1h", "eff_calc")
    /\ OtherThanVol
    /\ UNCHANGED <<vm, ctor, sup>>

\* effective_sigma() reading both suppliers a second time when it computes.
EffReturnRereading ==
    /\ vpc = "eff_calc"
    /\ volOut' = effective_sigma(vm, get(sup["24h"]), get(sup["1h"]))
    /\ callLog' = callLog \o <<(<<"24h", sup["24h"]>>), (<<"1h", sup["1h"]>>)>>
    /\ vpc' = "idle"
    /\ OtherThanVol
    /\ UNCHANGED <<vm, ctor, sup, rd>>

\* avail, total_w, eff, return
EffReturn ==
    /\ vpc = "eff_calc"
    /\ volOut' = effective_sigma(vm, rd["24h"], rd["1h"])
    /\ vpc' = "idle"
    /\ OtherThanVol
    /\ UNCHANGED <<vm, ctor, sup, rd, callLog>>

\* error_sigma(): entry
ErrEnter ==
    /\ vm.built /\ vpc = "idle"
    /\ vpc' = "err_1m"
    /\ rd' = FreshLocals
    /\ callLog' = <<>>
    /\ volOut' = NoOut
    /\ OtherThanVol
    /\ UNCHANGED <<vm, ctor, sup>>

\* One turn of the loop over (get_1m, get_1h, get_24h): val = getter(),
\* return val when it is present, else go on; after the last, return 0.0.
ErrStep(k, here, next) ==
    /\ vpc = here
    /\ LET got == get(sup[k])
       IN  /\ callLog' = Append(callLog, <<k, sup[k]>>)
           /\ IF got.tag = "raise"
              THEN /\ volOut' = Exc("error_sigma", "SupplierError")
                   /\ vpc' = "idle"
                   /\ rd' = rd
              ELSE /\ rd' = [rd EXCEPT ![k] = got]
                   /\ IF IsPresent(got)
                      THEN /\ volOut' = Ret("error_sigma", got.v, 1)
                           /\ vpc' = "idle"
                      ELSE IF next = "end"
                           THEN /\ volOut' = Ret("error_sigma", 0, 1)
                                /\ vpc' = "idle"
                           ELSE /\ volOut' = volOut
                                /\ vpc' = next
    /\ OtherThanVol
    /\ UNCHANGED <<vm, ctor, sup>>

ErrRead1m == ErrStep("1m", "err_1m", "err_1h")
ErrRead1h == ErrStep("1h", "err_1h", "err_24h")
ErrRead24h == ErrStep("24h", "err_24h", "end")

VolIdle ==
    /\ vm = NoInstance
    /\ ctor = NoCtor
    /\ sup = [k \in Labels |-> None]
    /\ vpc = "idle"
    /\ rd = FreshLocals
    /\ callLog = <<>>
    /\ volOut = NoOut

\* ========================================================================
\* mc_sma_pricer.py: sma_sample behind functools.lru_cache(maxsize=16)
\* ========================================================================
Spots == {2}
\* Horizons of direct sma_sample calls: enough of them that the calls
\* have more distinct keys than the cache has room for.
Horizons == 1..((MAXSIZE \div MaxPaths) + 1)
\* (omega, alpha, beta), alpha and beta in tenths
ParamSets == {<<1, 1, 8>>}
PathCounts == 1..MaxPaths
Prices == 1..MaxPrice

\* The six arguments of one sma_sample call, as passed.
ArgSpace ==
    {<<s, h, g[1], g[2], g[3], n>> :
        s \in Spots, h \in Horizons, g \in ParamSets, n \in PathCounts}

\* lru_cache's key of a call: the tuple of its arguments.
MakeKeyWithoutPaths(args) ==
    <<args[1], args[2], args[3], args[4], args[5], 0>>
MakeKey(args) == args

\* What _simulate_sma can return for these arguments: one settlement value
\* per path, each path's value depending on its own random draws.
SampleSpace(args) ==
    IF args[2] < 0 THEN {<<>>}
    ELSE IF args[2] = 0 THEN {[i \in 1..args[6] |-> args[1]]}
    ELSE [1..args[6] -> Prices]

\* How _simulate_sma and _simulate_garch_avg end for horizon T: the array
\* prices has T + 1 rows, so T <= -2 asks numpy for a negative dimension
\* and T = -1 for row 0 of an array with no rows.
SimulatorError(T) ==
    IF T >= 0 THEN "none"
    ELSE IF T = -1 THEN "IndexError" ELSE "ValueError"
\* One of them: every path ends where it started.
FlatSample(args) == [i \in 1..args[6] |-> args[1]]

\* How a simulator call ends for these parameters and this horizon: the
\* first statement divides omega by 1 - alpha - beta, which is zero for
\* alpha + beta = 1 (ZeroDivisionError); no other value of alpha + beta
\* stops the call.
SimCallError(params, T) ==
    IF params[2] + params[3] = 10 THEN "ZeroDivisionError"
    ELSE SimulatorError(T)

IndexOf(c, key) ==
    IF \E i \in 1..Len(c) : c[i].key = key
    THEN CHOOSE i \in 1..Len(c) : c[i].key = key
    ELSE 0

CacheKeys(c) == {c[i].key : i \in 1..Len(c)}

Without(c, i) == SubSeq(c, 1, i - 1) \o SubSeq(c, i + 1, Len(c))

\* A hit moves the entry to the most recently used end.
TouchNot(c, i) == c
Touch(c, i) == Append(Without(c, i), c[i])

\* A miss stores the new entry, dropping the least recently used entry of
\* a full cache.
Store(c, e) ==
    IF Len(c) >= MAXSIZE THEN Append(Tail(c), e) ELSE Append(c, e)

\* sma_sample without its cache: every call simulates.
sma_sample_uncached(cs, args, draw) ==
    [cache |-> cs.cache,
     simLog |-> Append(cs.simLog, [args |-> args, data |-> draw]),
     reqLog |-> Append(cs.reqLog,
                  [args |-> args, hit |-> FALSE,
                   obj |-> Len(cs.simLog) + 1,
                   nsim |-> Len(cs.simLog) + 1])]

\* One whole sma_sample call by a single caller, on the cache state
\* cs = [cache, simLog, reqLog]: look up; on a miss run _simulate_sma
\* (which returns draw) and store its result.
sma_sample(cs, args, draw) ==
    LET key == MakeKey(args)
        i == IndexOf(cs.cache, key)
    IN  IF i # 0
        THEN [cache |-> Touch(cs.cache, i),
              simLog |-> cs.simLog,
              reqLog |-> Append(cs.reqLog,
                           [args |-> args, hit |-> TRUE,
                            obj |-> cs.cache[i].obj,
                            nsim |-> Len(cs.simLog)])]
        ELSE [cache |-> Store(cs.cache,
                           [key |-> key, obj |-> Len(cs.simLog) + 1]),
              simLog |-> Append(cs.simLog, [args |-> args, data |-> draw]),
              reqLog |-> Append(cs.reqLog,
                           [args |-> args, hit |-> FALSE,
                            obj |-> Len(cs.simLog) + 1,
                            nsim |-> Len(cs.simLog) + 1])]

RECURSIVE sma_sample_calls(_, _)
\* The calls of the sequence argsSeq, one after the other, each simulation
\* returning the flat sample.
sma_sample_calls(cs, argsSeq) ==
    IF argsSeq = <<>> THEN cs
    ELSE sma_sample_calls(sma_sample(cs, Head(argsSeq),
                                      FlatSample(Head(argsSeq))),
                        Tail(argsSeq))

EmptyCache == [cache |-> <<>>, simLog |-> <<>>, reqLog |-> <<>>]

Threads == 1..NThreads
IdleThread == [pc |-> "idle", args |-> <<>>, obj |-> 0]

CacheIdle ==
    /\ warm = 0
    /\ cache = <<>>
    /\ simLog = <<>>
    /\ reqLog = <<>>
    /\ thr = [t \in Threads |-> IdleThread]

\* ---- a single caller ----------------------------------------------------

\* sma_sample(spot, horizon_s, omega, alpha, beta, paths)
CallSmaSample(args, draw) ==
    LET r == sma_sample([cache |-> cache, simLog |-> simLog,
                            reqLog |-> reqLog], args, draw)
    IN  /\ cache' = r.cache
        /\ simLog' = r.simLog
        /\ reqLog' = r.reqLog
        /\ UNCHANGED <<thr, warm>>
        /\ OtherThanCache

\* ---- several threads ----------------------------------------------------
\* The lru_cache wrapper looks the key up and, after the wrapped function
\* has returned, stores the result; each of the two is atomic, the wrapped
\* function runs between them with other threads free to run.

\* Entry and lookup.
ThreadLookup(t, args) ==
    /\ thr[t].pc = "idle"
    /\ LET i == IndexOf(cache, MakeKey(args))
       IN  IF i # 0
           THEN /\ cache' = Touch(cache, i)
                /\ reqLog' = Append(reqLog,
                                [args |-> args, hit |-> TRUE,
                                 obj |-> cache[i].obj,
                                 nsim |-> Len(simLog)])
                /\ thr' = thr
           ELSE /\ thr' = [thr EXCEPT ![t] =
                              [pc |-> "simulate", args |-> args, obj |-> 0]]
                /\ UNCHANGED <<cache, reqLog>>
    /\ UNCHANGED <<simLog, warm>>
    /\ OtherThanCache

\* The wrapped sma_sample body: _simulate_sma.
ThreadSimulate(t, draw) ==
    /\ thr[t].pc = "simulate"
    /\ simLog' = Append(simLog, [args |-> thr[t].args, data |-> draw])
    /\ thr' = [thr EXCEPT ![t].pc = "store", ![t].obj = Len(simLog) + 1]
    /\ UNCHANGED <<cache, reqLog, warm>>
    /\ OtherThanCache

\* Back in the wrapper: if the key was stored meanwhile the cache is left
\* alone, else the result is stored; either way the caller gets the result
\* of its own simulation.
ThreadStore(t) ==
    /\ thr[t].pc = "store"
    /\ LET key == MakeKey(thr[t].args)
       IN  cache' = IF IndexOf(cache, key) # 0 THEN cache
                    ELSE Store(cache, [key |-> key, obj |-> thr[t].obj])
    /\ reqLog' = Append(reqLog, [args |-> thr[t].args, hit |-> FALSE,
                                 obj |-> thr[t].obj, nsim |-> Len(simLog)])
    /\ thr' = [thr EXCEPT ![t] = IdleThread]
    /\ UNCHANGED <<simLog, warm>>
    /\ OtherThanCache

\* ========================================================================
\* Quoting: mc_sma_pricer.py and garch_quote_engine.py
\* ========================================================================
\* A probability is <<k, n>>, the mean of n booleans of which k are true.
\* A strike is in hundredths of a price unit (118749.99 -> 11874999).

PLeq(p, q) == p[1] * q[2] <= q[1] * p[2]
\* Python's min and max of two floats
PMin(p, q) == IF PLeq(q, p) /\ ~PLeq(p, q) THEN q ELSE p
PMax(p, q) == IF PLeq(p, q) /\ ~PLeq(q, p) THEN q ELSE p

\* p * 100 in binary floating point, as [q, frac]: the integer part of the
\* product and whether the product is above it.  For a p that is not a
\* whole number of cents the product is that far from an integer that
\* rounding does not matter.  For a whole number c of cents the double
\* nearest c/100, times 100, is c for most c, just below c for
\* c in {29, 57, 58} and just above c for c in {7, 14, 28, 55, 56}.
RoundsBelow == {29, 57, 58}
RoundsAbove == {7, 14, 28, 55, 56}
Times100(p) ==
    LET c == (100 * p[1]) \div p[2]
        r == (100 * p[1]) % p[2]
    IN  IF r # 0 THEN [q |-> c, frac |-> TRUE]
        ELSE IF c \in RoundsBelow THEN [q |-> c - 1, frac |-> TRUE]
        ELSE IF c \in RoundsAbove THEN [q |-> c, frac |-> TRUE]
        ELSE [q |-> c, frac |-> FALSE]

\* math.floor(x) and math.ceil(x); dividing the result by 100 gives the
\* price whose cents it is.
FloorOf(x) == x.q
CeilOf(x) == IF x.frac THEN x.q + 1 ELSE x.q

\* mc_sma_pricer.bid_ask
bid_ask_unordered(p_low, p_high) ==
    [bid |-> FloorOf(Times100(p_low)), ask |-> CeilOf(Times100(p_high))]
bid_ask(p_low, p_high) ==
    [bid |-> FloorOf(Times100(PMin(p_low, p_high))),
     ask |-> CeilOf(Times100(PMax(p_low, p_high)))]

Paths(sample) == Cardinality(DOMAIN sample)

\* mc_sma_pricer.price_above, price_below, price_between
price_above_strict(sample, strike) ==
    <<Cardinality({i \in DOMAIN sample : 100 * sample[i] > strike}),
      Paths(sample)>>
price_above(sample, strike) ==
    <<Cardinality({i \in DOMAIN sample : 100 * sample[i] >= strike}),
      Paths(sample)>>
price_below_reversed(sample, strike) ==
    <<Cardinality({i \in DOMAIN sample : 100 * sample[i] >= strike}),
      Paths(sample)>>
price_below(sample, strike) ==
    <<Cardinality({i \in DOMAIN sample : 100 * sample[i] <= strike}),
      Paths(sample)>>
price_between(sample, low, high) ==
    <<Cardinality({i \in DOMAIN sample :
          100 * sample[i] >= low /\ 100 * sample[i] <= high}),
      Paths(sample)>>

\* ContractId: strike and side; market_code() is named by the pair.
ContractIds == [strike : {100 * x : x \in Prices}, above : BOOLEAN]
\* The contract lists handed to quote_contracts: none, one, or a ladder
\* of two contracts of one side with strikes in order.
ContractLists ==
    {<<>>} \cup {<<c>> : c \in ContractIds}
           \cup {pair \in ContractIds \X ContractIds :
                     /\ pair[1].above = pair[2].above
                     /\ pair[1].strike <= pair[2].strike}

\* base_T, from below the jitter on
BaseTs == (HorizonJitter - 2)..MaxBaseT

Quote(market, r) == [market |-> market, bid |-> r.bid, ask |-> r.ask]

\* One contract's quote in quote_contracts, from the two horizons' samples.
ContractQuote(c, lo, hi) ==
    LET p_lo == IF c.above THEN price_above(lo, c.strike)
                ELSE price_below(lo, c.strike)
        p_hi == IF c.above THEN price_above(hi, c.strike)
                ELSE price_below(hi, c.strike)
    IN  Quote(c, bid_ask(p_lo, p_hi))

NoBidAsk == [called |-> FALSE, p_low |-> <<0, 1>>, p_high |-> <<0, 1>>,
             bid |-> 0, ask |-> 0]
\* The last quote call: its function, the exception that left it, the
\* horizons it asked a simulation for, in order, and its quotes.
NoQuotes == [fn |-> "none", exc |-> "none", params |-> <<0, 0, 0>>,
             Ts |-> <<>>, quotes |-> <<>>]

NoPrice == [fn |-> "none", sample |-> <<>>, low |-> 0, high |-> 0,
            p |-> <<0, 1>>, after |-> <<>>]

QuoteIdle == ba = NoBidAsk /\ quoteOut = NoQuotes /\ pr = NoPrice

\* garch_quote_engine._six_strikes_around_spot, in hundredths
CeilDiv(a, b) == -((-a) \div b)
Offsets == <<-3, -2, -1, 0, 1, 2>>
six_strikes_around_spot(spot, interval) ==
    LET anchor == CeilDiv(spot, interval) * interval
    IN  [j \in 1..6 |-> 100 * (anchor + Offsets[j] * interval) - 1]

\* garch_quote_engine.garch_bid_ask_multi, from the two horizons' averages
garch_bid_ask_multi(spot, interval, lo, hi) ==
    LET strikes == six_strikes_around_spot(spot, interval)
    IN  [j \in 1..6 |->
            LET p1 == price_above(lo, strikes[j])
                p2 == price_above(hi, strikes[j])
            IN  [market |-> [strike |-> strikes[j], above |-> TRUE],
                 bid |-> FloorOf(Times100(PMin(p1, p2))),
                 ask |-> CeilOf(Times100(PMax(p1, p2)))]]

\* garch_quote_engine.quote_for_contract: the guard on the time to expiry
TooClose(T_sec) == T_sec <= ExpiryGuard

\* garch_quote_engine.load_garch_params: the three numbers of the file,
\* as they are.
load_garch_params(file) == <<file.omega, file.alpha, file.beta>>

\* garch_quote_engine.quote_for_contract, T_sec seconds before expiry, the
\* simulation returning avgs
quote_for_contract(contract, params, T_sec, avgs) ==
    IF TooClose(T_sec)
    THEN [fn |-> "quote_for_contract", exc |-> "ValueError",
          params |-> params, Ts |-> <<>>, quotes |-> <<>>]
    ELSE IF SimCallError(params, T_sec) # "none"
    THEN [fn |-> "quote_for_contract",
          exc |-> SimCallError(params, T_sec),
          params |-> params, Ts |-> <<T_sec>>, quotes |-> <<>>]
    ELSE LET p == IF contract.above THEN price_above(avgs, contract.strike)
                  ELSE price_below(avgs, contract.strike)
         IN  [fn |-> "quote_for_contract", exc |-> "none",
              params |-> params, Ts |-> <<T_sec>>,
              quotes |-> <<[market |-> contract,
                            bid |-> FloorOf(Times100(p)),
                            ask |-> CeilOf(Times100(p))]>>]

\* ---- actions -----------------------------------------------------------
OtherThanQuote == UNCHANGED <<volVars, batchVars, simVars, bsVars, restVars>>

\* bid_ask(p_low, p_high)
BidAskCall(p_low, p_high) ==
    /\ ba' = [called |-> TRUE, p_low |-> p_low, p_high |-> p_high,
              bid |-> bid_ask(p_low, p_high).bid,
              ask |-> bid_ask(p_low, p_high).ask]
    /\ UNCHANGED <<quoteOut, pr, cacheVars>>
    /\ OtherThanQuote

\* quote_contracts(spot, params, contracts, base_T, paths): the two
\* sma_sample calls through the cache, lower horizon first, then one quote
\* per contract.  An exception of the simulator leaves quote_contracts
\* with nothing cached for that call.
QuoteContracts(spot, params, contracts, base_T, paths, drawLo, drawHi) ==
    LET horizons == <<base_T - HorizonJitter, base_T + HorizonJitter>>
        argsLo == <<spot, horizons[1],
                    params[1], params[2], params[3], paths>>
        argsHi == <<spot, horizons[2],
                    params[1], params[2], params[3], paths>>
        cs1 == sma_sample([cache |-> cache, simLog |-> simLog,
                              reqLog |-> reqLog], argsLo, drawLo)
        cs2 == sma_sample(cs1, argsHi, drawHi)
        lo == cs2.simLog[cs1.reqLog[Len(cs1.reqLog)].obj].data
        hi == cs2.simLog[cs2.reqLog[Len(cs2.reqLog)].obj].data
    IN  /\ IF SimCallError(params, horizons[1]) # "none"
           THEN /\ quoteOut' = [fn |-> "quote_contracts",
                                exc |-> SimCallError(params, horizons[1]),
                                params |-> params,
                                Ts |-> <<horizons[1]>>, quotes |-> <<>>]
                /\ UNCHANGED <<cache, simLog, reqLog>>
           ELSE /\ cache' = cs2.cache
                /\ simLog' = cs2.simLog
                /\ reqLog' = cs2.reqLog
                /\ quoteOut' =
                      [fn |-> "quote_contracts", exc |-> "none",
                       params |-> params, Ts |-> horizons,
                       quotes |-> [i \in 1..Len(contracts) |->
                                      ContractQuote(contracts[i], lo, hi)]]
        /\ UNCHANGED <<ba, pr, thr, warm>>
        /\ OtherThanQuote

\* garch_bid_ask_multi(initial_price, base_T, spot, params, interval, n):
\* one uncached simulation per horizon, lower horizon first, six quotes.
GarchBidAskMulti(spot, params, interval, base_T, lo, hi) ==
    LET horizons == <<base_T - HorizonJitter, base_T + HorizonJitter>>
    IN  /\ quoteOut' =
              IF SimCallError(params, horizons[1]) # "none"
              THEN [fn |-> "garch_bid_ask_multi",
                    exc |-> SimCallError(params, horizons[1]),
                    params |-> params,
                    Ts |-> <<horizons[1]>>, quotes |-> <<>>]
              ELSE [fn |-> "garch_bid_ask_multi", exc |-> "none",
                    params |-> params, Ts |-> horizons,
                    quotes |-> garch_bid_ask_multi(spot, interval, lo, hi)]
        /\ UNCHANGED <<ba, pr, cacheVars>>
        /\ OtherThanQuote

\* price_above(sample, strike), price_below(sample, strike) and
\* price_between(sample, low, high): the comparisons and the mean build
\* new arrays, the sample is not assigned to.
PriceAbove(sample, strike) ==
    /\ pr' = [fn |-> "price_above", sample |-> sample, low |-> strike,
              high |-> strike, p |-> price_above(sample, strike),
              after |-> sample]
    /\ UNCHANGED <<ba, quoteOut, cacheVars>>
    /\ OtherThanQuote

PriceBelow(sample, strike) ==
    /\ pr' = [fn |-> "price_below", sample |-> sample, low |-> strike,
              high |-> strike, p |-> price_below(sample, strike),
              after |-> sample]
    /\ UNCHANGED <<ba, quoteOut, cacheVars>>
    /\ OtherThanQuote

PriceBetween(sample, low, high) ==
    /\ pr' = [fn |-> "price_between", sample |-> sample, low |-> low,
              high |-> high, p |-> price_between(sample, low, high),
              after |-> sample]
    /\ UNCHANGED <<ba, quoteOut, cacheVars>>
    /\ OtherThanQuote

\* params = load_garch_params(path); quote_for_contract(contract, spot,
\* params, n)
QuoteForContract(contract, file, T_sec, avgs) ==
    /\ quoteOut' = quote_for_contract(contract, load_garch_params(file),
                                      T_sec, avgs)
    /\ UNCHANGED <<ba, pr, cacheVars>>
    /\ OtherThanQuote

\* ========================================================================
\* quote_loop_demo.py: main
\* ========================================================================
\* CONTRACT_CODES, parsed: an above contract below the spot, a below
\* contract at the spot, an above contract just under the next price.
CONTRACT_CODES ==
    <<[strike |-> 100, above |-> TRUE],
      [strike |-> 200, above |-> FALSE],
      [strike |-> 299, above |-> TRUE]>>

\* The file at PARAM_PATH: a stationary fit.
PARAM_PATH == [omega |-> 1, alpha |-> 1, beta |-> 8]

BatchIdle ==
    /\ bpc = "fetch" /\ bidx = 1 /\ now = 0
    /\ expiry = [i \in 1..NContracts |-> 0]
    /\ printed = <<>>

OtherThanBatch ==
    UNCHANGED <<volVars, cacheVars, quoteVars, simVars, bsVars, restVars>>

\* spot = get_latest_btc_price(); params = load_garch_params(PARAM_PATH);
\* the for loop starts.
MainFetch ==
    /\ bpc = "fetch"
    /\ bpc' = "loop"
    /\ bidx' = 1
    /\ printed' = <<>>
    /\ UNCHANGED <<now, expiry>>
    /\ OtherThanBatch

\* One turn of the for loop: parse, quote_for_contract, print.  main has
\* no handler: an exception of quote_for_contract leaves main.
MainQuote(avgs) ==
    /\ bpc = "loop"
    /\ LET q == quote_for_contract(CONTRACT_CODES[bidx],
                                   load_garch_params(PARAM_PATH),
                                   expiry[bidx] - now, avgs)
       IN  IF q.exc # "none"
           THEN /\ bpc' = "crashed"
                /\ UNCHANGED <<bidx, printed>>
           ELSE /\ printed' = Append(printed,
                                [kind |-> "quote", code |-> bidx,
                                 bid |-> q.quotes[1].bid,
                                 ask |-> q.quotes[1].ask])
                /\ bidx' = bidx + 1
                /\ bpc' = IF bidx = NContracts THEN "sleep" ELSE "loop"
    /\ UNCHANGED <<now, expiry>>
    /\ OtherThanBatch

\* time.sleep(1)
MainSleep ==
    /\ bpc = "sleep"
    /\ now < MaxNow
    /\ now' = now + 1
    /\ bpc' = "fetch"
    /\ UNCHANGED <<bidx, expiry, printed>>
    /\ OtherThanBatch

\* ========================================================================
\* black_scholes.py: bs_digital_24h
\* ========================================================================
\* Spot, strike, time to expiry (years) and sigma are integers; sigma may
\* also be None.  The value of the normal distribution function is not
\* computed: a result of the formula is recorded as such, kind "cdf".

BsPrices == -1..MaxPrice
BsTimes == -1..MaxYears
BsSigmas == {Val(v) : v \in Sigmas} \cup {None}

NoBs == [called |-> FALSE, S0 |-> 0, K |-> 0, T |-> 0, sigma |-> None,
         tag |-> "none", kind |-> "none",
         mid |-> 0, lower |-> 0, upper |-> 0]
BsIdle == bs = NoBs

\* return payout, payout, payout
Payout(payout) ==
    [tag |-> "val", kind |-> "payout",
     mid |-> payout, lower |-> payout, upper |-> payout]
\* return mid_price, lower, upper
Cdf == [tag |-> "val", kind |-> "cdf", mid |-> 0, lower |-> 0, upper |-> 0]
BsRaises(name) ==
    [tag |-> name, kind |-> "none", mid |-> 0, lower |-> 0, upper |-> 0]

\* payout = 1.0 if S0 > K else 0.0
ExpiredPayoutAtTheMoney(S0, K) == IF S0 >= K THEN 1 ELSE 0
ExpiredPayout(S0, K) == IF S0 > K THEN 1 ELSE 0

\* bs_digital_24h: the expiry test; then max(sigma_24h, EPS), S0 / K and
\* math.log(S0 / K), each of which can raise.
bs_digital_24h(S0, K, T, sigma_24h) ==
    IF T <= 0 THEN Payout(ExpiredPayout(S0, K))
    ELSE IF sigma_24h.tag # "val" THEN BsRaises("TypeError")
    ELSE IF K = 0 THEN BsRaises("ZeroDivisionError")
    ELSE IF S0 * K <= 0 THEN BsRaises("ValueError")
    ELSE Cdf

OtherThanBs ==
    UNCHANGED <<volVars, cacheVars, quoteVars, batchVars, simVars, restVars>>

\* bs_digital_24h(S0, K, T, sigma_24h)
BsCall(S0, K, T, sigma_24h) ==
    /\ ~bs.called
    /\ bs' = [called |-> TRUE, S0 |-> S0, K |-> K, T |-> T,
              sigma |-> sigma_24h] @@ bs_digital_24h(S0, K, T, sigma_24h)
    /\ OtherThanBs

\* ========================================================================

\* btc24h_cache.py: BTC24hCache
\* ========================================================================
\* A sample is the tuple (timestamp, price); (None, None) and None are the
\* sample with some = FALSE.  The deque of at most 86400 samples is kept
\* as the number n of samples it holds, the number it has dropped from its
\* left end, and its last sample.

Sample(t, p) == [some |-> TRUE, t |-> t, p |-> p]
NoSample == [some |-> FALSE, t |-> 0, p |-> 0]
SpotOnly(s) == [some |-> s.some, t |-> 0, p |-> s.p]

EmptyDeque == [n |-> 0, dropped |-> 0, last |-> NoSample]

\* deque(maxlen=86400).append(x)
deque_append_unbounded(dq, x) ==
    [n |-> dq.n + 1, dropped |-> dq.dropped, last |-> x]
deque_append(dq, x) ==
    IF dq.n = MAXLEN
    THEN [n |-> dq.n, dropped |-> dq.dropped + 1, last |-> x]
    ELSE [n |-> dq.n + 1, dropped |-> dq.dropped, last |-> x]

\* self._buffer[-1] if self._buffer else (None, None)
deque_latest(dq) == IF dq.n > 0 THEN dq.last ELSE NoSample

\* What _fetch_spot returns: a price, or None when the request failed.
FetchOutcomes == {Sample(0, p) : p \in Prices} \cup {NoSample}

NoBc == [dq |-> EmptyDeque, lock |-> "free",
         rpc |-> "fetch", spot |-> NoSample, clock |-> 1,
         cpc |-> "idle", op |-> "none", out |-> NoSample,
         appends |-> 0, lastAppend |-> NoSample, before |-> EmptyDeque]
BcIdle == bc = NoBc

OtherThanBc ==
    UNCHANGED <<volVars, cacheVars, quoteVars, batchVars, simVars, bsVars,
                vf, tk>>

\* _run: spot = self._fetch_spot()
RunFetch(outcome) ==
    /\ bc.rpc = "fetch"
    /\ bc' = [bc EXCEPT !.spot = outcome, !.before = bc.dq,
                        !.rpc = IF outcome.some THEN "lock" ELSE "sleep"]
    /\ OtherThanBc

\* _run: with self._lock
RunAcquire ==
    /\ bc.rpc = "lock" /\ bc.lock = "free"
    /\ bc' = [bc EXCEPT !.lock = "run", !.rpc = "append"]
    /\ OtherThanBc

\* _run: self._buffer.append((time.time(), spot))
RunAppend ==
    /\ bc.rpc = "append"
    /\ LET x == Sample(bc.clock, bc.spot.p)
       IN  bc' = [bc EXCEPT !.dq = deque_append(bc.dq, x),
                            !.appends = bc.appends + 1,
                            !.lastAppend = x,
                            !.rpc = "unlock"]
    /\ OtherThanBc

\* _run: the end of the with block
RunRelease ==
    /\ bc.rpc = "unlock"
    /\ bc' = [bc EXCEPT !.lock = "free", !.rpc = "sleep"]
    /\ OtherThanBc

\* _run: time.sleep(self.refresh)
RunSleep ==
    /\ bc.rpc = "sleep" /\ bc.clock <= MaxPolls
    /\ bc' = [bc EXCEPT !.clock = bc.clock + 1, !.rpc = "fetch"]
    /\ OtherThanBc

\* A reader calls get_latest() or get_spot().
BcCall(op) ==
    /\ bc.cpc = "idle"
    /\ bc' = [bc EXCEPT !.cpc = "lock", !.op = op, !.out = NoSample]
    /\ OtherThanBc

\* get_latest / get_spot: with self._lock
BcAcquire ==
    /\ bc.cpc = "lock" /\ bc.lock = "free"
    /\ bc' = [bc EXCEPT !.lock = "reader", !.cpc = "read"]
    /\ OtherThanBc

\* get_latest: self._buffer[-1] if self._buffer else (None, None)
\* get_spot:   self._buffer[-1][1] if self._buffer else None
BcRead ==
    /\ bc.cpc = "read"
    /\ bc' = [bc EXCEPT !.out = IF bc.op = "get_latest"
                                THEN deque_latest(bc.dq)
                                ELSE SpotOnly(deque_latest(bc.dq)),
                        !.cpc = "unlock"]
    /\ OtherThanBc

\* get_latest / get_spot: the end of the with block, and the return
BcReturn ==
    /\ bc.cpc = "unlock"
    /\ bc' = [bc EXCEPT !.lock = "free", !.cpc = "idle"]
    /\ OtherThanBc

\* ========================================================================
\* btc_feed.py: BTCVolFeed
\* ========================================================================
\* The feed keeps the spot prices of the last 10 s, 1 min and 5 min in three
\* deques (refresh = 1.0).  A volatility is None, zero or positive.
Len10s == 10
Len1m == 60
Len5m == 300

FeedSpots == {1, MaxPrice}
FeedOutcomes == {Sample(0, p) : p \in FeedSpots} \cup {NoSample}

\* What _fetch_historical_vol returns: None on fewer than two closes or on
\* any exception, else sigma * sqrt(len(rets)).
HistOutcomes == {"None", "zero", "positive"}

\* deque(maxlen=m).append(x), the deque as the sequence of its elements
dq_append(dq, x, m) ==
    IF Len(dq) = m THEN Append(Tail(dq), x) ELSE Append(dq, x)

\* _compute_vol
compute_vol(dq) ==
    IF Len(dq) < 2 THEN "None"
    ELSE IF \A i \in 1..Len(dq) : dq[i] = dq[1] THEN "zero"
    ELSE "positive"

\* The tuple get() returns.
FeedTuple(f) ==
    [spot |-> f.spot,
     vols |-> <<f.vol_10s, f.vol_1m, f.vol_5m, f.vol_web_1h, f.vol_web_24h>>]

NoVf == [lock |-> "free", rpc |-> "fetch", fetched |-> NoSample,
         spot |-> NoSample, dq_10s |-> <<>>, dq_1m |-> <<>>, dq_5m |-> <<>>,
         vol_10s |-> "None", vol_1m |-> "None", vol_5m |-> "None",
         vol_web_1h |-> "None", vol_web_24h |-> "None",
         polls |-> 0, exc |-> "none",
         cpc |-> "idle",
         out |-> [spot |-> NoSample,
                  vols |-> <<"None", "None", "None", "None", "None">>]]
VfIdle == vf = NoVf

OtherThanVf ==
    UNCHANGED <<volVars, cacheVars, quoteVars, batchVars, simVars, bsVars,
                bc, tk>>

\* _run: spot = self._fetch_spot()
FeedFetch(outcome) ==
    /\ vf.rpc = "fetch"
    /\ vf' = [vf EXCEPT !.fetched = outcome,
                        !.rpc = IF outcome.some THEN "lock" ELSE "sleep"]
    /\ OtherThanVf

\* _run: with self._lock
FeedAcquire ==
    /\ vf.rpc = "lock" /\ vf.lock = "free"
    /\ vf' = [vf EXCEPT !.lock = "run", !.rpc = "update"]
    /\ OtherThanVf

\* _run: self.spot = spot, the three appends and the three local vols
FeedStore ==
    /\ vf.rpc = "update"
    /\ LET x == vf.fetched.p
           d10 == dq_append(vf.dq_10s, x, Len10s)
           d1m == dq_append(vf.dq_1m, x, Len1m)
           d5m == dq_append(vf.dq_5m, x, Len5m)
       IN  vf' = [vf EXCEPT !.spot = vf.fetched,
                            !.dq_10s = d10, !.dq_1m = d1m, !.dq_5m = d5m,
                            !.vol_10s = compute_vol(d10),
                            !.vol_1m = compute_vol(d1m),
                            !.vol_5m = compute_vol(d5m),
                            !.rpc = "web_1h"]
    /\ OtherThanVf

\* _run: self.vol_web_1h = self._fetch_historical_vol(60, 60) * sqrt(12*365)
\* None * float raises TypeError: the with block releases the lock and the
\* exception, which nothing catches, ends the thread.
FeedWeb1h(outcome) ==
    /\ vf.rpc = "web_1h"
    /\ vf' = IF outcome = "None"
             THEN [vf EXCEPT !.lock = "free", !.rpc = "dead",
                             !.exc = "TypeError"]
             ELSE [vf EXCEPT !.vol_web_1h = outcome, !.rpc = "web_24h"]
    /\ OtherThanVf

\* _run: self.vol_web_24h = self._fetch_historical_vol(3600, 24) * sqrt(365)
FeedWeb24h(outcome) ==
    /\ vf.rpc = "web_24h"
    /\ vf' = IF outcome = "None"
             THEN [vf EXCEPT !.lock = "free", !.rpc = "dead",
                             !.exc = "TypeError"]
             ELSE [vf EXCEPT !.vol_web_24h = outcome, !.rpc = "unlock"]
    /\ OtherThanVf

\* _run: the end of the with block
FeedRelease ==
    /\ vf.rpc = "unlock"
    /\ vf' = [vf EXCEPT !.lock = "free", !.rpc = "sleep"]
    /\ OtherThanVf

\* _run: time.sleep(self.refresh), and the next turn of while True
FeedSleep ==
    /\ vf.rpc = "sleep" /\ vf.polls < MaxPolls
    /\ vf' = [vf EXCEPT !.polls = vf.polls + 1, !.rpc = "fetch"]
    /\ OtherThanVf

\* A reader calls get().
FeedGetCall ==
    /\ vf.cpc = "idle"
    /\ vf' = [vf EXCEPT !.cpc = "lock"]
    /\ OtherThanVf

\* get: with self._lock, and the tuple built under it
FeedGetRead ==
    /\ vf.cpc = "lock" /\ vf.lock = "free"
    /\ vf' = [vf EXCEPT !.lock = "reader", !.cpc = "unlock",
                        !.out = FeedTuple(vf)]
    /\ OtherThanVf

\* get: the end of the with block, and the return
FeedGetReturn ==
    /\ vf.cpc = "unlock"
    /\ vf' = [vf EXCEPT !.lock = "free", !.cpc = "idle"]
    /\ OtherThanVf

\* ========================================================================
\* kalshi_contracts.py: ContractId
\* ========================================================================
\* A ticker is the sequence of its characters.  A ContractId has its
\* datetime as year, month, day, hour and minute (ET) and its strike in
\* hundredths: a strike of two decimals below 10^13 is the double nearest to
\* k / 100, which "0.2f" prints as k / 100 and float() reads back.
KXBTC == <<"K", "X", "B", "T", "C">>
KXBTCD == <<"K", "X", "B", "T", "C", "D">>

Digits == <<"0", "1", "2", "3", "4", "5", "6", "7", "8", "9">>

\* strftime("%b").upper() of the twelve months
MonthNames ==
    << <<"J", "A", "N">>, <<"F", "E", "B">>, <<"M", "A", "R">>,
       <<"A", "P", "R">>, <<"M", "A", "Y">>, <<"J", "U", "N">>,
       <<"J", "U", "L">>, <<"A", "U", "G">>, <<"S", "E", "P">>,
       <<"O", "C", "T">>, <<"N", "O", "V">>, <<"D", "E", "C">> >>

\* str(n) of a natural number
RECURSIVE StrOf(_)
StrOf(n) ==
    IF n < 10 THEN <<Digits[n + 1]>>
    ELSE Append(StrOf(n \div 10), Digits[(n % 10) + 1])

\* int(s) of a string of digits
RECURSIVE IntOf(_)
IntOf(s) ==
    IF s = <<>> THEN 0
    ELSE 10 * IntOf(SubSeq(s, 1, Len(s) - 1))
         + (CHOOSE d \in 0..9 : Digits[d + 1] = s[Len(s)])

\* f"{n:02d}"
Pad2(n) == IF n < 10 THEN <<"0">> \o StrOf(n) ELSE StrOf(n)

\* f"{strike:0.2f}", the strike in hundredths
Fixed2(k) == StrOf(k \div 100) \o <<".">> \o Pad2(k % 100)

\* float(s) of digits, a point and two digits, in hundredths
FloatOf(s) ==
    LET dot == CHOOSE i \in 1..Len(s) : s[i] = "."
    IN  100 * IntOf(SubSeq(s, 1, dot - 1))
        + IntOf(SubSeq(s, dot + 1, Len(s)))

\* s[a:b]
Slice(s, a, b) == SubSeq(s, a + 1, b)

\* s.split("-", 1)
SplitOnce(s) ==
    LET i == CHOOSE i \in 1..Len(s) :
                 s[i] = "-" /\ \A j \in 1..(i - 1) : s[j] # "-"
    IN  <<SubSeq(s, 1, i - 1), SubSeq(s, i + 1, Len(s))>>

\* datetime.strptime(mmm, "%b").month
MonthOf(mmm) == CHOOSE m \in 1..12 : MonthNames[m] = mmm

\* ContractId.market_code
market_code(c) ==
    LET y2 == Slice(StrOf(c.year), 2, 4)
        mmm == MonthNames[c.month]
        dd == Pad2(c.day)
        hh == Pad2(c.hour)
        side == IF c.above
                THEN (IF c.series = KXBTC THEN "B" ELSE "T")
                ELSE (IF c.series = KXBTC THEN "S" ELSE "B")
        strike_txt == Fixed2(c.strike)
    IN  c.series \o <<"-">> \o y2 \o mmm \o dd \o hh \o <<"-">>
        \o <<side>> \o strike_txt

\* ContractId.parse
parse(market) ==
    LET ser == SplitOnce(market)[1]
        rest == SplitOnce(market)[2]
        datecode == SplitOnce(rest)[1]
        side_strike == SplitOnce(rest)[2]
    IN  [series |-> ser,
         year |-> 2000 + IntOf(Slice(datecode, 0, 2)),
         month |-> MonthOf(Slice(datecode, 2, 5)),
         day |-> IntOf(Slice(datecode, 5, 7)),
         hour |-> IntOf(Slice(datecode, 7, 9)),
         minute |-> 0,
         above |-> side_strike[1] \in {"B", "T"},
         strike |-> FloatOf(Slice(side_strike, 1, Len(side_strike)))]

\* The contracts of the round trip: both series, both sides, on-the-hour
\* datetimes of the century the two-digit year stands for, strikes of two
\* decimals.
TickerYears == {2000, 2025, 2099}
TickerMonths == {1, 7, 12}
TickerDays == {1, 9, 31}
TickerHours == {0, 9, 23}
TickerStrikes == {7, 10000 * MaxPrice, 10937550}

TickerContracts ==
    [series : {KXBTC, KXBTCD}, year : TickerYears, month : TickerMonths,
     day : TickerDays, hour : TickerHours, minute : {0},
     above : BOOLEAN, strike : TickerStrikes]

NoContractId ==
    [series |-> <<>>, year |-> 0, month |-> 0, day |-> 0, hour |-> 0,
     minute |-> 0, above |-> FALSE, strike |-> 0]

NoTk == [pc |-> "none", c |-> NoContractId, code |-> <<>>,
         parsed |-> NoContractId]
TkIdle == tk = NoTk

OtherThanTk ==
    UNCHANGED <<volVars, cacheVars, quoteVars, batchVars, simVars, bsVars,
                bc, vf>>

\* code = c.market_code()
TkMarketCode(c) ==
    /\ tk.pc = "none"
    /\ tk' = [tk EXCEPT !.pc = "coded", !.c = c, !.code = market_code(c)]
    /\ OtherThanTk

\* ContractId.parse(code)
TkParse ==
    /\ tk.pc = "coded"
    /\ tk' = [tk EXCEPT !.pc = "parsed", !.parsed = parse(tk.code)]
    /\ OtherThanTk

RestIdle == BcIdle /\ VfIdle /\ TkIdle

\* ========================================================================

\* The simulator: mc_sma_pricer._simulate_sma and
\* garch_quote_engine._simulate_garch_avg
\* ========================================================================
\* The two functions run the same statements (float32 arrays in the first,
\* float64 in the second).  Every array operation is elementwise over the
\* paths; the model follows one path.
\*
\* Numbers.  A variance is an integer number of units of 1e-11 (the floor
\* 1e-10 is VarFloor = 10 units, omega = 1 is 1e-11); alpha and beta are in
\* tenths; a product with alpha or beta is rounded down to a whole unit.
\* An innovation z is -1, 0 or 1.  exp(ret) is modelled by its direction:
\* the price doubles when ret > 0, halves when ret < 0 and stays when
\* ret = 0.  A mean is the pair <<sum, count>>.

Max(a, b) == IF a >= b THEN a ELSE b
Min(a, b) == IF a <= b THEN a ELSE b

SimFns == {"_simulate_sma", "_simulate_garch_avg"}
SimSpots == {4}
SimHorizons == (-2..2) \cup ((WindowBack - 1)..MaxT)
\* (omega, alpha, beta): stationary with the unconditional variance at,
\* above and below the floor; alpha + beta = 1; alpha + beta > 1.
SimParams == {<<1, 1, 8>>, <<3, 1, 8>>, <<0, 1, 8>>, <<1, 5, 5>>, <<1, 6, 5>>}

\* The innovations z[0..T-1] of one path: all zero, alternating, or zero
\* but for one tick.
Innovations(T) ==
    {[kind |-> "flat", at |-> 0, dir |-> 1]}
    \cup {[kind |-> "zigzag", at |-> 0, dir |-> d] : d \in {-1, 1}}
    \cup {[kind |-> "impulse", at |-> k, dir |-> d] :
             k \in {0, 1, T - WindowBack - 2, T - WindowBack - 1,
                    T - WindowBack, T - 1} \cap (0..(T - 1)),
             d \in {-1, 1}}
ZAt(zp, t) ==
    IF zp.kind = "flat" THEN 0
    ELSE IF zp.kind = "zigzag"
         THEN (IF t % 2 = 0 THEN zp.dir ELSE -zp.dir)
         ELSE (IF t = zp.at THEN zp.dir ELSE 0)

\* var0 = omega / (1 - alpha - beta)
UnconditionalVariance(omega, alpha, beta) ==
    (10 * omega) \div (10 - alpha - beta)

\* variances = omega + alpha * sq_ret + beta * variances
GarchUpdate(omega, alpha, beta, sq_ret, variances) ==
    omega + (alpha * sq_ret + beta * variances) \div 10

\* np.maximum(variances, 1e-10)
Floored(v) == Max(v, VarFloor)

\* ret = np.sqrt(variances) * z[t], by its sign; sq_ret = ret * ret
ReturnSign(variances, z) == IF variances > 0 THEN z ELSE 0
SquaredReturn(variances, z) == variances * z * z

\* prices[t] * np.exp(ret)
TimesExp(price, ret) ==
    IF ret > 0 THEN 2 * price
    ELSE IF ret < 0 THEN price \div 2 ELSE price

\* win0 = max(0, T - 59)
WindowStartOneEarlier(T) == Max(0, T - WindowBack - 1)
WindowStart(T) == Max(0, T - WindowBack)

\* prices[a:b].mean(axis=0), the rows a .. b-1 counted from 0
RECURSIVE SliceSum(_, _, _)
SliceSum(prices, a, b) ==
    IF a >= b THEN 0 ELSE prices[a + 1] + SliceSum(prices, a + 1, b)
SliceMean(prices, a, b) == <<SliceSum(prices, a, b), b - a>>

NoSim == [pc |-> "idle", fn |-> "none", T |-> 0, params |-> <<0, 0, 0>>,
          initial_price |-> 0,
          z |-> [kind |-> "flat", at |-> 0, dir |-> 1],
          t |-> 0, prices |-> <<>>, variances |-> 0, sq_ret |-> 0,
          varLog |-> <<>>, exc |-> "none", out |-> <<0, 1>>]
SimIdle == sim = NoSim

OtherThanSim ==
    UNCHANGED <<volVars, cacheVars, quoteVars, batchVars, bsVars, restVars>>

\* The call, up to the loop: var0, the arrays, prices[0], z.
SimEnter(fn, initial_price, T, params, z) ==
    /\ sim.pc = "idle"
    /\ LET omega == params[1]
           alpha == params[2]
           beta == params[3]
           called == [sim EXCEPT !.fn = fn, !.T = T, !.params = params,
                                 !.initial_price = initial_price, !.z = z]
       IN  IF SimCallError(params, T) # "none"
           THEN sim' = [called EXCEPT !.pc = "raised",
                                      !.exc = SimCallError(params, T)]
           ELSE LET var0 == UnconditionalVariance(omega, alpha, beta)
                IN  sim' = [called EXCEPT !.pc = "loop", !.t = 0,
                                          !.prices = <<initial_price>>,
                                          !.variances = var0,
                                          !.sq_ret = var0,
                                          !.varLog = <<var0>>]
    /\ OtherThanSim

\* One turn of `for t in range(T)`.
SimStep ==
    /\ sim.pc = "loop" /\ sim.t < sim.T
    /\ LET variances == Floored(GarchUpdate(sim.params[1], sim.params[2],
                                            sim.params[3], sim.sq_ret,
                                            sim.variances))
           z == ZAt(sim.z, sim.t)
           ret == ReturnSign(variances, z)
       IN  sim' = [sim EXCEPT
                     !.variances = variances,
                     !.varLog = Append(sim.varLog, variances),
                     !.prices = Append(sim.prices,
                                       TimesExp(sim.prices[sim.t + 1], ret)),
                     !.sq_ret = SquaredReturn(variances, z),
                     !.t = sim.t + 1]
    /\ OtherThanSim

\* After the loop: the window and its mean.
SimReturn ==
    /\ sim.pc = "loop" /\ sim.t = sim.T
    /\ sim' = [sim EXCEPT !.pc = "done",
                          !.out = SliceMean(sim.prices, WindowStart(sim.T),
                                            sim.T + 1)]
    /\ OtherThanSim

SimInit == CacheIdle /\ VolIdle /\ QuoteIdle /\ BatchIdle /\ SimIdle /\ BsIdle
    /\ RestIdle

SimNext ==
    \/ \E fn \in SimFns, p \in SimSpots, T \in SimHorizons,
          g \in SimParams :
          \E z \in Innovations(T) : SimEnter(fn, p, T, g, z)
    \/ SimStep
    \/ SimReturn

SpecSim == SimInit /\ [][SimNext]_vars

\* ---- bs_digital_24h, called once on any arguments
BsInit == CacheIdle /\ VolIdle /\ QuoteIdle /\ BatchIdle /\ SimIdle /\ BsIdle
    /\ RestIdle
BsNext ==
    \E S0 \in BsPrices, K \in BsPrices, T \in BsTimes, s \in BsSigmas :
        BsCall(S0, K, T, s)
SpecBs == BsInit /\ [][BsNext]_vars

\* ========================================================================

\* Specifications
\* ========================================================================

\* ---- volatility.py: one instance, its callers and the background feeds
VolInit ==
    /\ vm = NoInstance
    /\ ctor = NoCtor
    /\ sup \in [Labels -> SupplierOutcomes]
    /\ vpc = "idle"
    /\ rd = FreshLocals
    /\ callLog = <<>>
    /\ volOut = NoOut
    /\ CacheIdle /\ QuoteIdle /\ BatchIdle /\ SimIdle /\ BsIdle
    /\ RestIdle

VolNext ==
    \/ \E w24h \in WeightChoices, w1h \in WeightChoices : Construct(w24h, w1h)
    \/ \E k \in Labels, o \in SupplierOutcomes : FeedUpdate(k, o)
    \/ EffEnter
    \/ EffRead24h
    \/ EffRead1h
    \/ EffReturn
    \/ ErrEnter
    \/ ErrRead1m
    \/ ErrRead1h
    \/ ErrRead24h

SpecVol == VolInit /\ [][VolNext]_vars

\* ---- sma_sample called by a single caller.  The process has made `fill`
\* earlier calls with distinct arguments (an empty cache, one free slot, a
\* full cache), then makes up to MaxCalls further calls.
\* The i-th of these earlier calls: horizons from 1 up, every path count
\* at each horizon.
KeyAt(i) ==
    LET s == CHOOSE x \in Spots : TRUE
        g == CHOOSE x \in ParamSets : TRUE
    IN  <<s, ((i - 1) \div MaxPaths) + 1, g[1], g[2], g[3],
          ((i - 1) % MaxPaths) + 1>>
WarmUp(fill) == [i \in 1..fill |-> KeyAt(i)]
FillLevels == {0, MAXSIZE - 1, MAXSIZE}

CacheInit ==
    /\ \E fill \in FillLevels :
          LET cs == sma_sample_calls(EmptyCache, WarmUp(fill))
          IN  /\ warm = fill
              /\ cache = cs.cache
              /\ simLog = cs.simLog
              /\ reqLog = cs.reqLog
    /\ thr = [t \in Threads |-> IdleThread]
    /\ VolIdle /\ QuoteIdle /\ BatchIdle /\ SimIdle /\ BsIdle
    /\ RestIdle

Started == Len(reqLog) + Cardinality({t \in Threads : thr[t].pc # "idle"})

CacheNext ==
    \E args \in ArgSpace :
        /\ Len(reqLog) < warm + MaxCalls
        /\ CallSmaSample(args, FlatSample(args))

SpecCache == CacheInit /\ [][CacheNext]_vars

\* ---- sma_sample called from several threads, from an empty cache
ConcInit == CacheIdle /\ VolIdle /\ QuoteIdle /\ BatchIdle /\ SimIdle /\ BsIdle
    /\ RestIdle

ConcNext ==
    \/ \E t \in Threads, args \in ArgSpace :
          Started < MaxCalls /\ ThreadLookup(t, args)
    \/ \E t \in Threads : ThreadSimulate(t, FlatSample(thr[t].args))
    \/ \E t \in Threads : ThreadStore(t)

SpecConc == ConcInit /\ [][ConcNext]_vars

\* ---- one pricing pass of a fresh process: bid_ask on any two
\* probabilities, and one call of a quote function
Probabilities ==
    {<<k, n>> : k \in 0..MaxPaths, n \in PathCounts} \cup
    {<<c, 100>> : c \in 0..100}
ProbInputs == {p \in Probabilities : p[1] <= p[2]}
TSecs == (ExpiryGuard - 1)..(ExpiryGuard + 2)
Averages == UNION {[1..n -> Prices] : n \in PathCounts}

\* The parameters handed to the quote functions: the stationary fit, and
\* fits with alpha + beta = 1 and alpha + beta > 1.
QuoteParams == ParamSets \cup {<<1, 5, 5>>, <<1, 6, 5>>}
ParamFiles ==
    {[omega |-> g[1], alpha |-> g[2], beta |-> g[3]] : g \in QuoteParams}

QuoteInit == CacheIdle /\ VolIdle /\ QuoteIdle /\ BatchIdle /\ SimIdle /\ BsIdle
    /\ RestIdle

\* Nothing was called yet in this pass.
Fresh == ~ba.called /\ quoteOut.fn = "none" /\ pr.fn = "none"

\* Strikes, in hundredths: at, just under and just over each price, and
\* under and over all of them.
Strikes == {100 * x + d : x \in 0..(MaxPrice + 1), d \in {-1, 0, 1}}

QuoteNext ==
    \/ /\ Fresh
       /\ \E sample \in Averages, strike \in Strikes :
             PriceAbove(sample, strike)
    \/ /\ Fresh
       /\ \E sample \in Averages, strike \in Strikes :
             PriceBelow(sample, strike)
    \/ /\ Fresh
       /\ \E sample \in Averages, low \in Strikes, high \in Strikes :
             PriceBetween(sample, low, high)
    \/ /\ Fresh
       /\ \E p_low \in ProbInputs, p_high \in ProbInputs :
             BidAskCall(p_low, p_high)
    \/ /\ Fresh
       /\ \E s \in Spots, g \in QuoteParams, cs \in ContractLists,
             base_T \in BaseTs, n \in PathCounts :
             \E drawLo \in SampleSpace(<<s, base_T - HorizonJitter,
                                         g[1], g[2], g[3], n>>),
                drawHi \in SampleSpace(<<s, base_T + HorizonJitter,
                                         g[1], g[2], g[3], n>>) :
                QuoteContracts(s, g, cs, base_T, n, drawLo, drawHi)
    \/ /\ Fresh
       /\ \E s \in Spots, g \in QuoteParams, base_T \in BaseTs,
             n \in PathCounts :
             \E lo \in SampleSpace(<<s, base_T - HorizonJitter,
                                     g[1], g[2], g[3], n>>),
                hi \in SampleSpace(<<s, base_T + HorizonJitter,
                                     g[1], g[2], g[3], n>>) :
                GarchBidAskMulti(s, g, 1, base_T, lo, hi)
    \/ /\ Fresh
       /\ \E c \in ContractIds, f \in ParamFiles, T_sec \in TSecs,
             avgs \in Averages :
             QuoteForContract(c, f, T_sec, avgs)

SpecQuote == QuoteInit /\ [][QuoteNext]_vars

\* ---- one pricing tick: quote_contracts on an empty cache, then once more
\* with the same spot, params, base_T and paths, each time for a list of
\* none to three contracts
TickLists ==
    LET a == [strike |-> 200, above |-> TRUE]
        b == [strike |-> 200, above |-> FALSE]
    IN  {<<>>, <<a>>, <<a, b>>, <<b, a, b>>}

\* What a simulation for args can return if the call runs one; for cached
\* args none is run and the value is not looked at.
DrawsIfRun(args) ==
    IF IndexOf(cache, MakeKey(args)) # 0 THEN {FlatSample(args)}
    ELSE SampleSpace(args)

TickInit == QuoteInit

TickFirst ==
    /\ Len(reqLog) = 0 /\ quoteOut.fn = "none"
    /\ \E s \in Spots, g \in ParamSets, cs \in TickLists,
          base_T \in BaseTs, n \in PathCounts :
          \E drawLo \in SampleSpace(<<s, base_T - HorizonJitter,
                                      g[1], g[2], g[3], n>>),
             drawHi \in SampleSpace(<<s, base_T + HorizonJitter,
                                      g[1], g[2], g[3], n>>) :
             QuoteContracts(s, g, cs, base_T, n, drawLo, drawHi)

TickAgain ==
    /\ Len(reqLog) = 2
    /\ LET first == reqLog[1].args
           s == first[1]
           base_T == first[2] + HorizonJitter
           g == <<first[3], first[4], first[5]>>
           n == first[6]
       IN  \E cs \in TickLists :
           \E drawLo \in DrawsIfRun(<<s, base_T - HorizonJitter,
                                      g[1], g[2], g[3], n>>),
              drawHi \in DrawsIfRun(<<s, base_T + HorizonJitter,
                                      g[1], g[2], g[3], n>>) :
              QuoteContracts(s, g, cs, base_T, n, drawLo, drawHi)

TickNext == TickFirst \/ TickAgain

SpecTick == TickInit /\ [][TickNext]_vars

\* ---- BTC24hCache: the _run thread and one reader, the buffer empty, one
\* short of full, or full at the start
BufferFills == {0, MAXLEN - 1, MAXLEN}

BcInit ==
    /\ \E fill \in BufferFills :
          LET dq == IF fill = 0 THEN EmptyDeque
                    ELSE [n |-> fill, dropped |-> 0, last |-> Sample(0, 1)]
          IN  bc = [NoBc EXCEPT !.dq = dq, !.appends = fill,
                                !.lastAppend = dq.last, !.before = dq]
    /\ VfIdle /\ TkIdle
    /\ CacheIdle /\ VolIdle /\ QuoteIdle /\ BatchIdle /\ SimIdle /\ BsIdle

BcNext ==
    \/ \E o \in FetchOutcomes : RunFetch(o)
    \/ RunAcquire
    \/ RunAppend
    \/ RunRelease
    \/ RunSleep
    \/ \E op \in {"get_latest", "get_spot"} : BcCall(op)
    \/ BcAcquire
    \/ BcRead
    \/ BcReturn

SpecBc == BcInit /\ [][BcNext]_vars

\* ---- BTCVolFeed: the _run thread and one reader of get()
VfInit ==
    /\ VfIdle /\ BcIdle /\ TkIdle
    /\ CacheIdle /\ VolIdle /\ QuoteIdle /\ BatchIdle /\ SimIdle /\ BsIdle

VfNext ==
    \/ \E o \in FeedOutcomes : FeedFetch(o)
    \/ FeedAcquire
    \/ FeedStore
    \/ \E h \in HistOutcomes : FeedWeb1h(h)
    \/ \E h \in HistOutcomes : FeedWeb24h(h)
    \/ FeedRelease
    \/ FeedSleep
    \/ FeedGetCall
    \/ FeedGetRead
    \/ FeedGetReturn

SpecVf == VfInit /\ [][VfNext]_vars

\* ---- ContractId: one market_code, then parse of its result
TkInit ==
    /\ TkIdle /\ BcIdle /\ VfIdle
    /\ CacheIdle /\ VolIdle /\ QuoteIdle /\ BatchIdle /\ SimIdle /\ BsIdle

TkNext ==
    \/ \E c \in TickerContracts : TkMarketCode(c)
    \/ TkParse

SpecTk == TkInit /\ [][TkNext]_vars

\* ---- main of quote_loop_demo.py, each contract expiring a little more
\* than the guard from the start
ExpiryChoices == (ExpiryGuard + 1)..(ExpiryGuard + MaxNow + 1)

BatchInit ==
    /\ bpc = "fetch" /\ bidx = 1 /\ now = 0
    /\ expiry \in [1..NContracts -> ExpiryChoices]
    /\ printed = <<>>
    /\ CacheIdle /\ VolIdle /\ QuoteIdle /\ SimIdle /\ BsIdle
    /\ RestIdle

BatchNext ==
    \/ MainFetch
    \/ \E avgs \in [1..MaxPaths -> Prices] : MainQuote(avgs)
    \/ MainSleep

SpecBatch == BatchInit /\ [][BatchNext]_vars

\* ========================================================================
\* Properties of volatility.py
\* ========================================================================
EffFinished == vpc = "idle" /\ volOut.op = "effective_sigma"
ErrFinished == vpc = "idle" /\ volOut.op = "error_sigma"

\* The raw answer the supplier of source k gave in this evaluation.
Answered(k) == \E i \in 1..Len(callLog) : callLog[i][1] = k
AnswerOf(k) ==
    IF Answered(k)
    THEN (CHOOSE e \in {callLog[i] : i \in 1..Len(callLog)} : e[1] = k)[2]
    ELSE Unread
AsNone(o) == IF o.tag = "raise" THEN None ELSE o

PresentSources == {k \in {"24h", "1h"} : rd[k].tag = "val"}
PresentWeight ==
    (IF rd["24h"].tag = "val" THEN vm.w24h ELSE 0) +
    (IF rd["1h"].tag = "val" THEN vm.w1h ELSE 0)

\* C6: a finished effective_sigma() whose present weights do not sum to
\* zero returned the weighted mean of the present 24h and 1h readings:
\* (sum of w_k*sigma_k) / (sum of w_k) over the present sources; with both
\* present and the default weights that is 0.8*sigma_24h + 0.2*sigma_1h,
\* with exactly one present it is that source's sigma, with none present
\* it is 0.0; the 1-minute supplier is neither called nor read.
C6_EffectiveSigmaIsWeightedMean ==
    EffFinished =>
        /\ \A i \in 1..Len(callLog) : callLog[i][1] # "1m"
        /\ rd["1m"] = Unread
        /\ PresentSources = {} =>
              volOut.tag = "val" /\ volOut.num = 0 /\ volOut.den # 0
        /\ (PresentSources # {} /\ PresentWeight # 0) =>
              /\ volOut.tag = "val" /\ volOut.den # 0
              /\ volOut.num * PresentWeight =
                    volOut.den *
                      ((IF rd["24h"].tag = "val"
                           THEN vm.w24h * rd["24h"].v ELSE 0) +
                       (IF rd["1h"].tag = "val"
                           THEN vm.w1h * rd["1h"].v ELSE 0))
              /\ (PresentSources = {"24h", "1h"}
                    /\ vm.w24h = DefaultW24h /\ vm.w1h = DefaultW1h) =>
                    volOut.num * 10 =
                       volOut.den * (8 * rd["24h"].v + 2 * rd["1h"].v)
              /\ PresentSources = {"24h"} =>
                    volOut.num = volOut.den * rd["24h"].v
              /\ PresentSources = {"1h"} =>
                    volOut.num = volOut.den * rd["1h"].v

\* effective_sigma() returned under the default weights with only the 1h
\* source present, the 1m supplier holding yet another value.
C6_Witness ==
    /\ EffFinished /\ volOut.tag = "val"
    /\ PresentSources = {"1h"} /\ rd["1h"].v = 2
    /\ vm.w24h = DefaultW24h /\ vm.w1h = DefaultW1h
    /\ sup["1m"] = Val(1)

\* C7: a finished error_sigma() returned the 1-minute reading if it is not
\* None, else the 1-hour reading if not None, else the 24-hour reading if
\* not None, else 0.0; a reading of exactly 0.0 is present and ends the
\* chain: no later source is then called.
C7_ErrorSigmaFallbackChain ==
    ErrFinished =>
        /\ volOut.tag = "val" /\ volOut.den = 1
        /\ Answered("1m")
        /\ IF rd["1m"].tag = "val"
           THEN /\ volOut.num = rd["1m"].v
                /\ ~Answered("1h") /\ ~Answered("24h")
           ELSE IF rd["1h"].tag = "val"
                THEN volOut.num = rd["1h"].v /\ ~Answered("24h")
                ELSE IF rd["24h"].tag = "val"
                     THEN volOut.num = rd["24h"].v
                     ELSE /\ volOut.num = 0
                          /\ Answered("1h") /\ Answered("24h")

\* error_sigma() returned the 1-minute reading 0.0 while the 1-hour
\* supplier held a positive value (test_error_sigma_handles_zero).
C7_Witness ==
    /\ ErrFinished
    /\ rd["1m"] = Val(0) /\ volOut.num = 0
    /\ sup["1h"] = Val(2) /\ sup["24h"] = Val(1)

\* C8: a supplier that raised is read as None: no evaluation ends with the
\* supplier's exception, every local holds get's value (None where the
\* supplier raised), and the outcome of a finished effective_sigma() or
\* error_sigma() is the one the same answers give with None in place of
\* each raise.
C8_RaisingSupplierIsAbsent ==
    /\ volOut.tag # "SupplierError"
    /\ \A i \in 1..Len(callLog) :
          rd[callLog[i][1]] = AsNone(callLog[i][2])
    /\ EffFinished =>
          volOut = effective_sigma(vm, AsNone(AnswerOf("24h")),
                                  AsNone(AnswerOf("1h")))
    /\ ErrFinished =>
          LET a1m == AsNone(AnswerOf("1m"))
              a1h == AsNone(AnswerOf("1h"))
              a24h == AsNone(AnswerOf("24h"))
          IN  volOut.tag = "val" /\
              volOut.num = (IF a1m.tag = "val" THEN a1m.v
                            ELSE IF a1h.tag = "val" THEN a1h.v
                            ELSE IF a24h.tag = "val" THEN a24h.v ELSE 0)

\* effective_sigma() returned the 1h reading after the 24h supplier raised.
C8_Witness ==
    /\ EffFinished
    /\ AnswerOf("24h") = Raises /\ AnswerOf("1h") = Val(2)
    /\ volOut.tag = "val" /\ volOut.num = volOut.den * 2

\* C9: every finished effective_sigma() of a constructed instance returned
\* a number: no error leaves it, whatever the accepted weights and
\* whichever sources are absent.
C9_EffectiveSigmaNeverRaises ==
    EffFinished => volOut.tag = "val"

\* C10: the constructor ends in ValueError exactly when w24h + w1h <= 0,
\* and then no instance exists; otherwise it succeeds and the instance
\* stores both weights as given.
C10_ConstructorGuard ==
    ctor.called =>
        /\ ctor.outcome \in {"ok", "ValueError"}
        /\ ctor.outcome = "ValueError" <=> ctor.w24h + ctor.w1h <= 0
        /\ ctor.outcome = "ValueError" => vm = NoInstance
        /\ ctor.outcome = "ok" =>
              vm.built /\ vm.w24h = ctor.w24h /\ vm.w1h = ctor.w1h

\* The constructor rejected weights that sum to exactly zero.
C10_Witness ==
    /\ ctor.called /\ ctor.outcome = "ValueError"
    /\ ctor.w24h + ctor.w1h = 0 /\ ctor.w24h # 0

\* ========================================================================
\* Properties of the sma_sample cache
\* ========================================================================
RECURSIVE MostRecent(_, _)
\* The distinct arguments of the calls up to the j-th, walking back from
\* it, until MAXSIZE of them are collected.
MostRecent(j, acc) ==
    IF j = 0 \/ Cardinality(acc) = MAXSIZE THEN acc
    ELSE MostRecent(j - 1, acc \cup {reqLog[j].args})

DiffersOnlyInPaths(a, b) ==
    /\ \A i \in 1..5 : a[i] = b[i]
    /\ a[6] # b[6]

\* C2: of two sma_sample calls issued back-to-back with identical
\* arguments, the second is a hit that returns the very object the first
\* returned and runs no simulation; a call whose arguments were not
\* requested before (in particular one that differs from an earlier call
\* only in paths) is a miss: it runs one new simulation and returns its
\* fresh result.
C2_IdenticalCallsShareSample ==
    \A j \in 1..Len(reqLog) :
        LET before == IF j = 1 THEN 0 ELSE reqLog[j - 1].nsim
        IN  /\ (j > 1 /\ reqLog[j - 1].args = reqLog[j].args) =>
                  /\ reqLog[j].hit
                  /\ reqLog[j].obj = reqLog[j - 1].obj
                  /\ reqLog[j].nsim = before
            /\ (\A i \in 1..(j - 1) : reqLog[i].args # reqLog[j].args) =>
                  /\ ~reqLog[j].hit
                  /\ reqLog[j].nsim = before + 1
                  /\ reqLog[j].obj = before + 1
                  /\ simLog[reqLog[j].obj].args = reqLog[j].args

\* From an empty cache: a call, the identical call again (a hit on the same
\* object), then the same call with another paths (a miss).
C2_Witness ==
    /\ warm = 0 /\ Len(reqLog) = 3
    /\ reqLog[1].args = reqLog[2].args
    /\ reqLog[2].hit /\ reqLog[2].obj = reqLog[1].obj
    /\ DiffersOnlyInPaths(reqLog[2].args, reqLog[3].args)
    /\ ~reqLog[3].hit /\ Len(simLog) = 2

\* C3: however the threads interleave, _simulate_sma runs at most once per
\* key and every caller of a key receives the same sample object.
C3_AtMostOneSimulationPerKey ==
    /\ \A i, j \in 1..Len(simLog) :
          simLog[i].args = simLog[j].args => i = j
    /\ \A i, j \in 1..Len(reqLog) :
          reqLog[i].args = reqLog[j].args => reqLog[i].obj = reqLog[j].obj

\* C4: the cache never holds more than 16 entries and never one key
\* twice, and its keys are exactly the (up to 16) most recently used
\* distinct ones: whatever was requested among them is still cached, and
\* what a miss on a full cache evicted is the least recently used key.
C4_BoundedLeastRecentlyUsed ==
    /\ Len(cache) <= MAXSIZE
    /\ \A i, j \in 1..Len(cache) : cache[i].key = cache[j].key => i = j
    /\ CacheKeys(cache) = MostRecent(Len(reqLog), {})

\* A full cache whose oldest entry was hit and so survived the miss that
\* followed, which evicted the second oldest instead.
C4_Witness ==
    /\ warm = MAXSIZE /\ Len(cache) = MAXSIZE
    /\ Len(reqLog) > warm + 1
    /\ reqLog[warm + 1].args = KeyAt(1) /\ reqLog[warm + 1].hit
    /\ ~reqLog[warm + 2].hit
    /\ KeyAt(1) \in CacheKeys(cache)
    /\ KeyAt(2) \notin CacheKeys(cache)

\* ========================================================================
\* Properties of the quote functions and of main
\* ========================================================================
LowerOf(p, q) == IF p[1] * q[2] <= q[1] * p[2] THEN p ELSE q
HigherOf(p, q) == IF p[1] * q[2] <= q[1] * p[2] THEN q ELSE p

\* C5: bid_ask, on probabilities in [0,1] given in either order, returns
\* bid = floor(min * 100) / 100 and ask = ceil(max * 100) / 100, so that
\* bid is at most the smaller probability, ask at least the larger, and
\* 0 <= bid <= ask <= 1; and every quote that quote_contracts,
\* garch_bid_ask_multi or quote_for_contract returns has
\* 0 <= bid <= ask <= 1.
C5_BidAtMostAsk ==
    /\ ba.called =>
          LET lo == LowerOf(ba.p_low, ba.p_high)
              hi == HigherOf(ba.p_low, ba.p_high)
          IN  /\ ba.bid = FloorOf(Times100(lo))
              /\ ba.ask = CeilOf(Times100(hi))
              /\ ba.bid * lo[2] <= 100 * lo[1]
              /\ ba.ask * hi[2] >= 100 * hi[1]
              /\ 0 <= ba.bid /\ ba.bid <= ba.ask /\ ba.ask <= 100
    /\ \A i \in 1..Len(quoteOut.quotes) :
          /\ 0 <= quoteOut.quotes[i].bid
          /\ quoteOut.quotes[i].bid <= quoteOut.quotes[i].ask
          /\ quoteOut.quotes[i].ask <= 100

\* bid_ask(0.58, 0.5), the larger probability first: bid 0.50, ask 0.58.
C5_Witness ==
    /\ ba.called
    /\ ba.p_low = <<58, 100>> /\ ba.p_high = <<1, 2>>
    /\ ba.bid = 50 /\ ba.ask = 58

\* The pass of main over CONTRACT_CODES is over: completed, or left by an
\* exception.
PassOver == bpc \in {"sleep", "crashed"}
Printed(kind, i) ==
    \E j \in 1..Len(printed) : printed[j].kind = kind /\ printed[j].code = i

\* C1: when a pass over the contract list is over, every contract that
\* could be priced (more than 10 s to expiry) has its quote, and every
\* contract whose pricing failed is reported as skipped.
C1_FailureDoesNotAbortBatch ==
    PassOver =>
        \A i \in 1..NContracts :
            IF expiry[i] - now <= ExpiryGuard
            THEN Printed("skipped", i)
            ELSE Printed("quote", i)

\* ========================================================================
\* Further properties of volatility.py
\* ========================================================================

\* C11: with every reading absent or >= 0, the number a finished
\* effective_sigma() or error_sigma() of a constructed instance returned
\* is >= 0.
C11_SigmasNonNegative ==
    ((EffFinished \/ ErrFinished) /\ volOut.tag = "val") =>
        \/ volOut.den > 0 /\ volOut.num >= 0
        \/ volOut.den < 0 /\ volOut.num <= 0

\* The labels of the supplier calls of the running / last evaluation.
CalledLabels == [i \in 1..Len(callLog) |-> callLog[i][1]]
IsPrefix(s, t) == Len(s) <= Len(t) /\ \A i \in 1..Len(s) : s[i] = t[i]

\* C12: while feeds change what the suppliers answer, one evaluation calls
\* no supplier twice; a finished effective_sigma() made exactly the calls
\* 24h, 1h and its outcome is the one those two answers give; a finished
\* error_sigma() made its calls in the order 1m, 1h, 24h, stopped at the
\* first present answer, and returned that answer (0.0 after three absent
\* ones), whatever the suppliers hold by the time it returns.
C12_OneSupplierCallPerEvaluation ==
    /\ \A i, j \in 1..Len(callLog) :
          callLog[i][1] = callLog[j][1] => i = j
    /\ EffFinished =>
          /\ CalledLabels = <<"24h", "1h">>
          /\ volOut = effective_sigma(vm, get(callLog[1][2]),
                                      get(callLog[2][2]))
    /\ ErrFinished =>
          /\ Len(callLog) >= 1
          /\ IsPrefix(CalledLabels, <<"1m", "1h", "24h">>)
          /\ \A i \in 1..(Len(callLog) - 1) : ~IsPresent(get(callLog[i][2]))
          /\ LET last == get(callLog[Len(callLog)][2])
             IN  IF IsPresent(last)
                 THEN volOut = Ret("error_sigma", last.v, 1)
                 ELSE Len(callLog) = 3 /\ volOut = Ret("error_sigma", 0, 1)

\* effective_sigma() returned 0.8*1 + 0.2*0 from its two readings although
\* both suppliers had been given other values before it returned.
C12_Witness ==
    /\ EffFinished
    /\ vm.w24h = DefaultW24h /\ vm.w1h = DefaultW1h
    /\ callLog = <<(<<"24h", Val(1)>>), (<<"1h", Val(0)>>)>>
    /\ sup["24h"] = Val(2) /\ sup["1h"] = Val(2)
    /\ volOut.tag = "val" /\ volOut.num * 10 = volOut.den * 8

\* ========================================================================
\* Further properties of the quote functions
\* ========================================================================
MultiHorizon == quoteOut.fn \in {"quote_contracts", "garch_bid_ask_multi"}

\* C13: quote_contracts and garch_bid_ask_multi, on stationary parameters,
\* never ask the simulator for a negative horizon and never end in an
\* error: with base_T - 5 <= 0 the lower horizon is 0 and the quotes are
\* returned.
C13_LowerHorizonClamped ==
    (MultiHorizon /\ quoteOut.params[2] + quoteOut.params[3] < 10) =>
        /\ \A i \in 1..Len(quoteOut.Ts) : quoteOut.Ts[i] >= 0
        /\ quoteOut.exc = "none"

\* ========================================================================
\* Properties of the simulator
\* ========================================================================
RECURSIVE SumOver(_, _)
SumOver(f, S) ==
    IF S = {} THEN 0
    ELSE LET x == CHOOSE x \in S : TRUE
         IN  f[x] + SumOver(f, S \ {x})

\* C14: a simulation that returned for horizon T >= 0 kept the path's
\* prices at the ticks 0 .. T and returned the arithmetic mean of those at
\* the ticks max(0, T - 59) .. T, the last min(60, T + 1) ticks with the
\* terminal one; for T = 0 that is the initial price.
C14_SmaOverLastTicks ==
    sim.pc = "done" =>
        LET T == sim.T
            n == Min(WindowBack + 1, T + 1)
            ticks == Max(0, T - WindowBack)..T
        IN  /\ T >= 0 /\ Len(sim.prices) = T + 1
            /\ Cardinality(ticks) = n
            /\ sim.out =
                 <<SumOver([k \in ticks |-> sim.prices[k + 1]], ticks), n>>
            /\ T = 0 => sim.out = <<sim.initial_price, 1>>

\* Horizon 61 with the price doubling from 4 to 8 at tick 2: the ticks 0
\* and 1 are outside the window and the mean is 8 over 60 ticks.
C14_Witness ==
    /\ sim.pc = "done" /\ sim.T = WindowBack + 2
    /\ sim.z = [kind |-> "impulse", at |-> 1, dir |-> 1]
    /\ sim.prices[1] = 4 /\ sim.prices[2] = 4 /\ sim.prices[3] = 8
    /\ sim.out = <<8 * (WindowBack + 1), WindowBack + 1>>

\* C15: every value of the path's variance sequence is at least the floor
\* 1e-10: the sequence starts at omega / (1 - alpha - beta), each later
\* value is max(omega + alpha * r^2 + beta * v, 1e-10), and no return is
\* drawn from a variance below the floor.
C15_VarianceNeverBelowFloor ==
    sim.pc \in {"loop", "done"} =>
        /\ Len(sim.varLog) = sim.t + 1
        /\ sim.varLog[1] =
              UnconditionalVariance(sim.params[1], sim.params[2],
                                    sim.params[3])
        /\ \A i \in 1..Len(sim.varLog) : sim.varLog[i] >= VarFloor

NonStationary(params) == params[2] + params[3] >= 10

\* C16: a quote function handed parameters with alpha + beta >= 1, loaded
\* by load_garch_params or passed directly, ends in an error and returns
\* no quote.
C16_NonStationaryParamsRejected ==
    (quoteOut.fn # "none" /\ NonStationary(quoteOut.params)) =>
        quoteOut.exc # "none" /\ quoteOut.quotes = <<>>

\* ========================================================================
\* Properties of black_scholes.py
\* ========================================================================

\* C17: bs_digital_24h with a spot <= 0 or a strike <= 0 ends in an error,
\* whatever the time to expiry and sigma: it returns no tuple.
C17_NonPositiveSpotOrStrikeFails ==
    (bs.called /\ (bs.S0 <= 0 \/ bs.K <= 0)) => bs.tag # "val"

\* C18: bs_digital_24h with T <= 0 and a positive spot and strike returns
\* (1, 1, 1) if S0 > K and (0, 0, 0) otherwise, so (0, 0, 0) for S0 = K,
\* whatever sigma is.
C18_ExpiredPaysIntrinsic ==
    (bs.called /\ bs.T <= 0 /\ bs.S0 > 0 /\ bs.K > 0) =>
        /\ bs.tag = "val" /\ bs.kind = "payout"
        /\ bs.S0 > bs.K =>
              bs.mid = 1 /\ bs.lower = 1 /\ bs.upper = 1
        /\ bs.S0 <= bs.K =>
              bs.mid = 0 /\ bs.lower = 0 /\ bs.upper = 0

\* A negative time to expiry, spot equal to strike, sigma 0: (0, 0, 0).
C18_Witness ==
    /\ bs.called /\ bs.T < 0 /\ bs.S0 = 2 /\ bs.K = 2
    /\ bs.sigma = Val(0)
    /\ bs.tag = "val" /\ bs.mid = 0 /\ bs.lower = 0 /\ bs.upper = 0

\* ========================================================================
\* Further properties of mc_sma_pricer.py
\* ========================================================================
Settlements == {pr.sample[i] : i \in DOMAIN pr.sample}
\* The number of paths that settled at or above low and at or below high.
Hits(low, high) ==
    Cardinality(DOMAIN pr.sample)
      - Cardinality({i \in DOMAIN pr.sample : 100 * pr.sample[i] < low})
      - Cardinality({i \in DOMAIN pr.sample : 100 * pr.sample[i] > high
                                               /\ 100 * pr.sample[i] >= low})
NoLow == -(100 * (MaxPrice + 2))
NoHigh == 100 * (MaxPrice + 2)

\* C19: on a non-empty sample price_above returns the fraction of paths
\* with settlement >= strike, price_below the fraction with
\* settlement <= strike, price_between the fraction with
\* low <= settlement <= high; the result is in [0,1], price_above is
\* exactly 1 for a strike at or below every settlement and exactly 0 for a
\* strike above every settlement; the sample is as it was.
C19_EmpiricalFractions ==
    pr.fn # "none" =>
        LET n == Cardinality(DOMAIN pr.sample)
        IN  /\ n > 0 /\ pr.p[2] = n
            /\ 0 <= pr.p[1] /\ pr.p[1] <= n
            /\ pr.fn = "price_above" =>
                  /\ pr.p[1] = Hits(pr.low, NoHigh)
                  /\ (\A s \in Settlements : pr.low <= 100 * s) =>
                        pr.p[1] = n
                  /\ (\A s \in Settlements : pr.low > 100 * s) =>
                        pr.p[1] = 0
            /\ pr.fn = "price_below" => pr.p[1] = Hits(NoLow, pr.high)
            /\ pr.fn = "price_between" => pr.p[1] = Hits(pr.low, pr.high)
            /\ pr.after = pr.sample

\* price_above with the strike equal to the settlement of one of two
\* paths and above the other's: one half.
C19_Witness ==
    /\ pr.fn = "price_above"
    /\ pr.sample = <<1, 2>> /\ pr.low = 200
    /\ pr.p = <<1, 2>>

WholeCents(p) == (100 * p[1]) % p[2] = 0

\* C20: bid_ask(p, p) with p in [0,1] returns bid <= ask less than two
\* cents apart: bid = ask = p when p is a whole number of cents, and ask
\* one cent above bid otherwise.
C20_EqualInputsSpread ==
    (ba.called /\ ba.p_low = ba.p_high) =>
        /\ ba.bid <= ba.ask /\ ba.ask - ba.bid < 2
        /\ WholeCents(ba.p_low) =>
              /\ ba.bid = ba.ask
              /\ ba.bid * ba.p_low[2] = 100 * ba.p_low[1]
        /\ ~WholeCents(ba.p_low) => ba.ask - ba.bid = 1

\* ========================================================================
\* Properties of one pricing tick
\* ========================================================================
Returned == quoteOut.fn = "quote_contracts" /\ quoteOut.exc = "none"

\* C21: from an empty cache, no horizon is ever simulated twice; a
\* quote_contracts call that returned ran the simulator once for
\* base_T - 5 and once for base_T + 5, two runs whatever the number of
\* contracts, and priced every contract from those two samples; the call
\* that follows with the same spot, params, base_T and paths ran it zero
\* times and priced from the same two samples.
C21_OneSimulationPerHorizon ==
    /\ \A i, j \in 1..Len(simLog) : simLog[i].args = simLog[j].args => i = j
    /\ Returned =>
          /\ Len(simLog) = 2
          /\ simLog[1].args[2] = quoteOut.Ts[1]
          /\ simLog[2].args[2] = quoteOut.Ts[2]
          /\ quoteOut.Ts[2] - quoteOut.Ts[1] = 2 * HorizonJitter
          /\ \A i \in 1..Len(quoteOut.quotes) :
                quoteOut.quotes[i] =
                   ContractQuote(quoteOut.quotes[i].market,
                                 simLog[1].data, simLog[2].data)
    /\ (Returned /\ Len(reqLog) = 4) =>
          /\ reqLog[3].hit /\ reqLog[4].hit
          /\ reqLog[3].obj = 1 /\ reqLog[4].obj = 2

\* The second of two identical calls priced three contracts with the two
\* simulations of the first.
C21_Witness ==
    /\ Returned /\ Len(reqLog) = 4 /\ Len(simLog) = 2
    /\ Len(quoteOut.quotes) = 3
    /\ reqLog[4].hit /\ reqLog[3].args = reqLog[1].args


\* ------------------------------------------------------------------------
\* C22: in BTC24hCache, under every interleaving of the _run thread with a
\* reader, a get_latest() that has read returns (None, None) when nothing
\* was ever appended and otherwise the (timestamp, price) pair of the most
\* recent append, get_spot() returns that pair's price, a failed fetch
\* leaves the buffer as it was, and the buffer holds the last
\* min(appends, 86400) samples: never more than 86400, the oldest dropped.
HasRead == bc.cpc = "unlock"

C22_LatestIsLastAppend ==
    /\ (HasRead /\ bc.op = "get_latest") =>
          bc.out = (IF bc.appends = 0 THEN NoSample ELSE bc.lastAppend)
    /\ (HasRead /\ bc.op = "get_spot") =>
          bc.out = (IF bc.appends = 0 THEN NoSample
                    ELSE SpotOnly(bc.lastAppend))
    /\ (bc.rpc = "sleep" /\ ~bc.spot.some) => bc.dq = bc.before
    /\ bc.dq.n <= MAXLEN
    /\ bc.dq.n = Min(bc.appends, MAXLEN)
    /\ bc.dq.dropped = bc.appends - bc.dq.n

C22_Witness ==
    /\ HasRead /\ bc.op = "get_latest"
    /\ bc.out.some /\ bc.out.t > 1
    /\ bc.dq.n = MAXLEN /\ bc.dq.dropped > 0
    /\ bc.rpc = "sleep" /\ ~bc.spot.some


\* ------------------------------------------------------------------------
\* C23: the polling thread of BTCVolFeed keeps polling forever: whatever
\* the spot fetch and the two historical-volatility fetches return (None
\* included), the thread stays in its loop (it releases the lock, sleeps
\* and polls again), so it never ends on an exception.
C23_PollingNeverEnds ==
    vf.rpc \in {"fetch", "lock", "update", "web_1h", "web_24h", "unlock",
                "sleep"}


\* ------------------------------------------------------------------------
\* C24: for every ContractId c with series KXBTC or KXBTCD, either side, an
\* on-the-hour ET datetime and a two-decimal strike,
\* ContractId.parse(c.market_code()) has the series, datetime, strike and
\* above flag of c.
C24_TickerRoundTrip ==
    tk.pc = "parsed" =>
        /\ tk.parsed.series = tk.c.series
        /\ tk.parsed.year = tk.c.year /\ tk.parsed.month = tk.c.month
        /\ tk.parsed.day = tk.c.day /\ tk.parsed.hour = tk.c.hour
        /\ tk.parsed.minute = tk.c.minute
        /\ tk.parsed.strike = tk.c.strike
        /\ tk.parsed.above = tk.c.above


\* ------------------------------------------------------------------------
\* C25: within one garch_bid_ask_multi or quote_contracts call (one pair of
\* horizon samples), the quotes of Above contracts are monotone in the
\* strike: K1 <= K2 gives bid(K1) >= bid(K2) and ask(K1) >= ask(K2); for
\* Below contracts in quote_contracts, bid and ask are non-decreasing in
\* the strike.
QuotePairs ==
    {pair \in (1..Len(quoteOut.quotes)) \X (1..Len(quoteOut.quotes)) :
        /\ quoteOut.quotes[pair[1]].market.above
              = quoteOut.quotes[pair[2]].market.above
        /\ quoteOut.quotes[pair[1]].market.strike
              <= quoteOut.quotes[pair[2]].market.strike}

C25_QuotesMonotoneInStrike ==
    quoteOut.fn \in {"quote_contracts", "garch_bid_ask_multi"} =>
        \A pair \in QuotePairs :
            LET q1 == quoteOut.quotes[pair[1]]
                q2 == quoteOut.quotes[pair[2]]
            IN  IF q1.market.above
                THEN q1.bid >= q2.bid /\ q1.ask >= q2.ask
                ELSE q1.bid <= q2.bid /\ q1.ask <= q2.ask

C25_Witness ==
    /\ quoteOut.fn = "quote_contracts" /\ quoteOut.exc = "none"
    /\ \E pair \in QuotePairs :
          LET q1 == quoteOut.quotes[pair[1]]
              q2 == quoteOut.quotes[pair[2]]
          IN  /\ ~q1.market.above
              /\ q1.market.strike < q2.market.strike
              /\ q1.bid < q2.bid /\ q1.ask < q2.ask
              /\ q1.bid < q1.ask

=============================================================================
